---- MODULE Spec2Model ----
(***************************************************************************)
(* Model of the 1000genome "individuals" MPI scripts:                      *)
(*   bin/individuals_mpi_proper.py  (worker ranks + one merge rank)        *)
(*   bin/individuals_mpi_fixed.py   (every rank runs processing())         *)
(*   bin/individuals_mpi_debug.py   (every rank runs processing())         *)
(* Text is modelled as sequences of one-character strings, so that         *)
(* split / startswith / rstrip / float / str are computed, not assumed.    *)
(***************************************************************************)
EXTENDS Integers, Sequences, FiniteSets, TLC

VARIABLES
    variant,     \* which script is launched: "proper", "fixed" or "debug"
    size,        \* comm.Get_size()
    buffered,    \* TRUE: the transport completes a send eagerly; FALSE: on the matching receive
    inputfile,   \* file system: the input file, File(lines) or NotFound
    columfile,   \* file system: the columns file, File(lines) or NotFound
    argv,        \* per rank: the command line [c, counter, stop, total]
    pc,          \* per rank: position in the script
    wk,          \* per rank: locals of the worker routine (filename_arr, count_arr, chrp_data)
    net,         \* per source rank: messages sent and not yet received, in send order
    agg,         \* locals of process_individuals_merger
    slog,        \* per rank: tags of the sends this rank has completed posting, in order
    rlog         \* <<source, tag>> of every receive the merger completed, in order

vars == <<variant, size, buffered, inputfile, columfile, argv, pc, wk, net, agg, slog, rlog>>

----------------------------------------------------------------------------
(* Bounds of the model                                                     *)

MaxSize == 3        \* largest process group
MaxLines == 2       \* longest input file of the range-oriented inputs
MaxPos == 3         \* largest line number given as counter / stop / total

(* Program constants                                                       *)

start_data == 9     \* "where the real data starts"
TagNames == 12      \* tag of filename_arr
TagCounts == 7      \* tag of count_arr
TagData == 13       \* tag of chrp_data
MinFields == 8      \* len(fields) < 8: insufficient basic fields
FallbackIdx == 8    \* the ";"-part used when no AF= part exists

\* a path of the file system: the lines readfile() returns, or no such file
NotFound == [exists |-> FALSE, lines |-> <<>>]
File(lines) == [exists |-> TRUE, lines |-> lines]

----------------------------------------------------------------------------
(* Python str operations on sequences of characters                        *)

\* str.split(sep) for a one-character separator: never empty, "" -> [""]
RECURSIVE Split(_, _)
Split(s, sep) ==
    LET at == {k \in 1..Len(s) : s[k] = sep}
    IN  IF at = {} THEN <<s>>
        ELSE LET first == CHOOSE k \in at : \A j \in at : k <= j
             IN  <<SubSeq(s, 1, first - 1)>> \o Split(SubSeq(s, first + 1, Len(s)), sep)

\* str.rstrip('\n')
RECURSIVE RStripNL(_)
RStripNL(s) ==
    IF s # <<>> /\ s[Len(s)] = "\n" THEN RStripNL(SubSeq(s, 1, Len(s) - 1)) ELSE s

\* str.startswith(prefix)
StartsWith(s, prefix) ==
    Len(s) >= Len(prefix) /\ SubSeq(s, 1, Len(prefix)) = prefix

\* ch in s
Contains(s, ch) == \E k \in 1..Len(s) : s[k] = ch

\* re.compile('(?!#)').match(line): a match object unless the line begins with '#'
RegexMatch(line) == ~ StartsWith(line, <<"#">>)

----------------------------------------------------------------------------
(* float(s) and str(x).  A float is [k, neg, m, d]: kind "num" is the      *)
(* decimal (-1)^neg * m / 10^d in lowest form (d = 0 or m not a multiple   *)
(* of 10), "nan" and "inf" are the special values, "err" is ValueError.    *)
(* The literals accepted are [+-] digits [. digits], [+-] . digits, nan    *)
(* and inf; with at most a few digits their binary value compares with 0.5 *)
(* and prints exactly as the decimal does.                                 *)

Digits == <<"0", "1", "2", "3", "4", "5", "6", "7", "8", "9">>
IsDigit(ch) == \E k \in 1..10 : Digits[k] = ch
DigitVal(ch) == (CHOOSE k \in 1..10 : Digits[k] = ch) - 1
AllDigits(s) == \A k \in 1..Len(s) : IsDigit(s[k])

RECURSIVE ToNat(_)
ToNat(s) ==
    IF s = <<>> THEN 0
    ELSE 10 * ToNat(SubSeq(s, 1, Len(s) - 1)) + DigitVal(s[Len(s)])

RECURSIVE Pow10(_)
Pow10(d) == IF d = 0 THEN 1 ELSE 10 * Pow10(d - 1)

RECURSIVE Lowest(_, _)
Lowest(m, d) ==
    IF d > 0 /\ m % 10 = 0 THEN Lowest(m \div 10, d - 1) ELSE <<m, d>>

ValueError == [k |-> "err", neg |-> FALSE, m |-> 0, d |-> 0]

Float(s) ==
    LET signed == s # <<>> /\ Head(s) \in {"-", "+"}
        neg    == s # <<>> /\ Head(s) = "-"
        body   == IF signed THEN Tail(s) ELSE s
        pts    == Split(body, ".")
        ip     == pts[1]
        fp     == IF Len(pts) = 2 THEN pts[2] ELSE <<>>
        low    == Lowest(ToNat(ip \o fp), Len(fp))
    IN  IF body = <<"n", "a", "n">> THEN [k |-> "nan", neg |-> FALSE, m |-> 0, d |-> 0]
        ELSE IF body = <<"i", "n", "f">> THEN [k |-> "inf", neg |-> neg, m |-> 0, d |-> 0]
        ELSE IF Len(pts) <= 2 /\ AllDigits(ip) /\ AllDigits(fp) /\ Len(ip) + Len(fp) > 0
             THEN [k |-> "num", neg |-> neg, m |-> low[1], d |-> low[2]]
             ELSE ValueError

RECURSIVE NatStr(_)
NatStr(n) ==
    IF n < 10 THEN <<Digits[n + 1]>> ELSE NatStr(n \div 10) \o <<Digits[(n % 10) + 1]>>

\* the last d digits of m, zero-padded
RECURSIVE FracStr(_, _)
FracStr(m, d) ==
    IF d = 0 THEN <<>> ELSE FracStr(m \div 10, d - 1) \o <<Digits[(m % 10) + 1]>>

\* str(x) of a float
Str(x) ==
    LET sign == IF x.neg THEN <<"-">> ELSE <<>>
    IN  IF x.k = "nan" THEN <<"n", "a", "n">>
        ELSE IF x.k = "inf" THEN sign \o <<"i", "n", "f">>
        ELSE sign \o NatStr(x.m \div Pow10(x.d)) \o <<".">>
                  \o (IF x.d = 0 THEN <<"0">> ELSE FracStr(x.m, x.d))

\* x >= 0.5 and x < 0.5 (both false of nan)
GeHalf(x) ==
    \/ x.k = "inf" /\ ~ x.neg
    \/ x.k = "num" /\ ~ x.neg /\ 2 * x.m >= Pow10(x.d)
LtHalf(x) ==
    \/ x.k = "inf" /\ x.neg
    \/ x.k = "num" /\ (x.neg \/ 2 * x.m < Pow10(x.d))

----------------------------------------------------------------------------
(* The worker routine: process_individuals_worker (proper) and processing  *)
(* (fixed, debug).  v is the script variant.                               *)

Max(a, b) == IF a >= b THEN a ELSE b
Min(a, b) == IF a <= b THEN a ELSE b

\* a Python slice bound i on a list of n elements
PyIndex(i, n) == IF i < 0 THEN Max(i + n, 0) ELSE Min(i, n)

\* s[a:b]
PySlice(s, a, b) ==
    LET lo == PyIndex(a, Len(s))
        hi == PyIndex(b, Len(s))
    IN  IF lo < hi THEN SubSeq(s, lo + 1, hi) ELSE <<>>

\* ending = min(int(stop), int(total))
Ending(stop, total) == Min(stop, total)

\* RangeLines without the adjustment for 1-based line numbers
RangeLinesFromCounter(v, rawdata, counter, ending) ==
    IF v = "debug"
    THEN PySlice(rawdata, counter, ending)
    ELSE PySlice(rawdata, Max(0, counter), Min(ending, Len(rawdata)))

\* rawdata[start_idx:end_idx]: proper and fixed clamp the bounds first, debug does not
RangeLines(v, rawdata, counter, ending) ==
    IF v = "debug"
    THEN PySlice(rawdata, counter - 1, ending)
    ELSE LET start_idx == Max(0, counter - 1)
             end_idx   == Min(ending, Len(rawdata))
         IN  PySlice(rawdata, start_idx, end_idx)

\* list(filter(regex.match, lines))
RECURSIVE FilterLines(_)
FilterLines(lines) ==
    IF lines = <<>> THEN <<>>
    ELSE (IF RegexMatch(Head(lines)) THEN <<Head(lines)>> ELSE <<>>)
         \o FilterLines(Tail(lines))

\* [x.rstrip('\n') for x in data]
StripLines(lines) == [k \in 1..Len(lines) |-> RStripNL(lines[k])]

\* FilterData with the comment lines discarded before the range is cut
FilterDataFirst(v, rawdata, counter, stop, total) ==
    StripLines(RangeLines(v, FilterLines(rawdata), counter, Ending(stop, total)))

\* data = [x.rstrip('\n') for x in filter(regex.match, rawdata[start_idx:end_idx])]
FilterData(v, rawdata, counter, stop, total) ==
    StripLines(FilterLines(RangeLines(v, rawdata, counter, Ending(stop, total))))

AFPrefix == <<"A", "F", "=">>

\* FirstAF taking the first part that has AF= anywhere in it
RECURSIVE FirstAFAnywhere(_)
FirstAFAnywhere(parts) ==
    IF parts = <<>> THEN <<>>
    ELSE IF \E k \in 1..Len(Head(parts)) :
               k + 2 <= Len(Head(parts)) /\ SubSeq(Head(parts), k, k + 2) = AFPrefix
         THEN <<Split(Head(parts), "=")[2]>>
    ELSE FirstAFAnywhere(Tail(parts))

\* the for loop over info_field.split(';'): <<text>> of the first AF= part, or <<>> (None)
RECURSIVE FirstAF(_)
FirstAF(parts) ==
    IF parts = <<>> THEN <<>>
    ELSE IF StartsWith(Head(parts), AFPrefix) THEN <<Split(Head(parts), "=")[2]>>
    ELSE FirstAF(Tail(parts))

\* the fallback when no part starts with AF=: <<text>>, or <<>> for "continue"
Fallback(v, parts) ==
    IF v = "debug"
    THEN IF Len(parts) > FallbackIdx
         THEN << IF Contains(parts[FallbackIdx + 1], "=")
                 THEN Split(parts[FallbackIdx + 1], "=")[2]
                 ELSE parts[FallbackIdx + 1] >>
         ELSE <<>>
    ELSE IF Len(parts) > FallbackIdx /\ Contains(parts[FallbackIdx + 1], "=")
         THEN <<Split(parts[FallbackIdx + 1], "=")[2]>>
         ELSE <<>>

\* af_value before conversion: <<text>> or <<>>
AfText(v, info_field) ==
    LET parts == Split(info_field, ";")
        af    == FirstAF(parts)
    IN  IF af # <<>> THEN af ELSE Fallback(v, parts)

\* float of the part before the first comma
AfValue(text) ==
    IF Contains(text, ",") THEN Float(Split(text, ",")[1]) ELSE Float(text)

\* Keep with the boundary wrong: af_value > 0.5 in place of af_value >= 0.5
KeepStrict(af_value, allele0) ==
    \/ GeHalf(af_value) /\ ~ (af_value.k = "num" /\ 2 * af_value.m = Pow10(af_value.d))
       /\ allele0 = <<"0">>
    \/ LtHalf(af_value) /\ allele0 = <<"1">>

\* the filtering logic on the parsed frequency and elem[0]
Keep(af_value, allele0) ==
    \/ GeHalf(af_value) /\ allele0 = <<"0">>
    \/ LtHalf(af_value) /\ allele0 = <<"1">>

\* body of "for line in data" for column col: the records appended (none or one)
LineRecords(v, line, col) ==
    LET fields == Split(line, "\t")
    IN  IF Len(fields) <= col THEN <<>>
        ELSE IF Len(fields) < MinFields THEN <<>>
        ELSE LET first  == fields[col + 1]
                 second == <<fields[2], fields[3], fields[4], fields[5], fields[8]>>
                 text   == AfText(v, second[5])
             IN  IF text = <<>> THEN <<>>
                 ELSE LET af_value == AfValue(text[1])
                          elem     == Split(first, "|")
                      IN  IF af_value.k = "err" THEN <<>>
                          ELSE IF Len(elem) = 0 THEN <<>>
                          ELSE IF Keep(af_value, elem[1])
                               THEN <<[second EXCEPT ![5] = Str(af_value)]>>
                               ELSE <<>>

\* IndividualRecords with every individual read from the first data column
RECURSIVE IndividualRecordsFirstColumn(_, _, _)
IndividualRecordsFirstColumn(v, data, col) ==
    IF data = <<>> THEN <<>>
    ELSE LineRecords(v, Head(data), start_data)
         \o IndividualRecordsFirstColumn(v, Tail(data), col)

\* chrp_data[i] after the inner loop
RECURSIVE IndividualRecords(_, _, _)
IndividualRecords(v, data, col) ==
    IF data = <<>> THEN <<>>
    ELSE LineRecords(v, Head(data), col) \o IndividualRecords(v, Tail(data), col)

\* readfile(columfile)[0].rstrip('\n').split('\t')
ColumnData(lines) == Split(RStripNL(lines[1]), "\t")

\* end_data = len(columndata) - start_data (range(0, end_data) is empty when it is negative)
EndData(columndata) == Len(columndata) - start_data

\* FilenameMpi without the "chr" in front
FilenameMpiBare(c, name) == c \o <<".">> \o name

\* f"chr{c}.{name}"
FilenameMpi(c, name) == <<"c", "h", "r">> \o c \o <<".">> \o name

\* the locals the worker holds when it reaches the sends
WorkerLocals(v, rawdata, columndata, c, counter, stop, total) ==
    LET data == FilterData(v, rawdata, counter, stop, total)
        n    == EndData(columndata)
        chrp == [i \in 0..(n - 1) |-> IndividualRecords(v, data, i + start_data)]
    IN  [data         |-> data,
         filename_arr |-> [k \in 1..n |-> FilenameMpi(c, columndata[k + start_data])],
         count_arr    |-> [k \in 1..n |-> Len(chrp[k - 1])],
         chrp_data    |-> chrp]

----------------------------------------------------------------------------
(* Input texts                                                             *)

RECURSIVE Join(_, _)
Join(parts, sep) ==
    IF Len(parts) = 0 THEN <<>>
    ELSE IF Len(parts) = 1 THEN parts[1]
    ELSE parts[1] \o <<sep>> \o Join(Tail(parts), sep)

TextLine(fields) == Join(fields, "\t") \o <<"\n">>

\* a header with the nine fixed columns and n individuals
IndividualNames == << <<"x">>, <<"y">> >>
FixedColumns ==
    << <<"A">>, <<"B">>, <<"C">>, <<"D">>, <<"E">>, <<"F">>, <<"G">>, <<"H">>, <<"I">> >>
HeaderLine(n) == TextLine(FixedColumns \o SubSeq(IndividualNames, 1, n))

\* a data row: CHROM POS ID REF ALT QUAL FILTER INFO FORMAT genotypes...
DataLine(pos, info, genos) ==
    TextLine(<< <<".">>, pos, <<".">>, <<"A">>, <<"C">>, <<".">>, <<".">>, info, <<"G">> >>
             \o genos)

LComment == <<"#", "c", "\n">>
LA == DataLine(<<"1">>, AFPrefix \o <<"0", ".", "3">>,
               << <<"0", "|", "1">>, <<"1", "|", "0">> >>)
LB == DataLine(<<"2">>, AFPrefix \o <<"0", ".", "5">>,
               << <<"0", "|", "0">>, <<"1", "|", "1">> >>)
LC == DataLine(<<"3">>, AFPrefix \o <<"0", ".", "7", "0">>,
               << <<"2", "|", "1">>, <<".", "|", ".">> >>)
LD == DataLine(<<"4">>, AFPrefix \o <<"0", ".", "2", ",", "0", ".", "8">>,
               << <<"1">>, <<>> >>)
LE == DataLine(<<"5">>, <<"D", "P", "=", "3">> \o <<";">> \o AFPrefix \o <<"1">>,
               << <<"0">>, <<"|", "0">> >>)
LF == DataLine(<<"6">>, <<"D", "P", "=", "3">>,
               << <<"0", "|", "1">>, <<"1", "|", "0">> >>)
LG == DataLine(<<"7">>, AFPrefix \o <<"n", "a", "n">>,
               << <<"0", "|", "1">>, <<"1", "|", "0">> >>)
LH == DataLine(<<"8">>, AFPrefix \o <<"x">>,
               << <<"0", "|", "1">>, <<"1", "|", "0">> >>)

\* the data row of raw line p: POS is p, so a record tells the line it came from
DataAt(p) ==
    IF p % 2 = 1
    THEN DataLine(NatStr(p), AFPrefix \o <<"0", ".", "3">>,
                  << <<"0", "|", "1">>, <<"1", "|", "0">> >>)
    ELSE DataLine(NatStr(p), AFPrefix \o <<"0", ".", "5">>,
                  << <<"0", "|", "0">>, <<"0", "|", "1">> >>)

\* the range-oriented files: up to MaxLines lines, each a comment or a data row
RangeFiles ==
    UNION {{[p \in 1..n |-> IF p \in cs THEN LComment ELSE DataAt(p)] : cs \in SUBSET (1..n)}
           : n \in 0..MaxLines}

\* AF= among other annotations, one of them ending in AF=
EASPart == <<"E", "A", "S", "_">> \o AFPrefix \o <<"0", ".", "9">>
AFPair == AFPrefix \o <<"0", ".", "2", ",", "0", ".", "8">>
LM == DataLine(<<"1", "3">>, EASPart \o <<";">> \o AFPair \o <<";", "D", "P", "=", "3">>,
               << <<"1", "|", "0">>, <<"0", "|", "1">> >>)
LN == DataLine(<<"1", "4">>, AFPair \o <<";">> \o EASPart,
               << <<"1", "|", "0">>, <<"0", "|", "1">> >>)

\* no AF= component: eight empty components, then a bare value, a key=value, a
\* key with a value that is no number
EightEmpty == <<";", ";", ";", ";", ";", ";", ";", ";">>
LI == DataLine(<<"1", "5">>, EightEmpty \o <<"0", ".", "7">>,
               << <<"0", "|", "1">>, <<"1", "|", "0">> >>)
LJ == DataLine(<<"1", "6">>, EightEmpty \o <<"X", "=", "0", ".", "2">>,
               << <<"0", "|", "1">>, <<"1", "|", "0">> >>)
LK == DataLine(<<"1", "7">>, EightEmpty \o <<"X", "=", "z">>,
               << <<"0", "|", "1">>, <<"1", "|", "0">> >>)

\* a row cut after its first n fields (the tenth field is x's genotype)
ShortLine(n) ==
    TextLine(SubSeq(<< <<".">>, <<"9">>, <<".">>, <<"A">>, <<"C">>, <<".">>, <<".">>,
                       AFPrefix \o <<"0", ".", "3">>, <<"G">>, <<"1", "|", "0">> >>, 1, n))
ShortLines == {ShortLine(7), ShortLine(8), ShortLine(9), ShortLine(10)}

\* the lines tried one at a time, and each short row in front of a whole one
LineCatalogue ==
    {LComment, LA, LB, LC, LD, LE, LF, LG, LH, LI, LJ, LK, LM, LN} \cup ShortLines
LineFiles == {<<l>> : l \in LineCatalogue} \cup {<<l, DataAt(2)>> : l \in ShortLines}

\* a header of the first eight fixed columns only
ShortHeader == TextLine(SubSeq(FixedColumns, 1, 8))

ColumnFiles == {<<HeaderLine(2)>>, <<HeaderLine(1)>>, <<HeaderLine(0)>>, <<ShortHeader>>}

Chromosome == <<"2", "1">>

Variants == {"proper", "fixed", "debug"}

Args(counter, stop, total) ==
    [c |-> Chromosome, counter |-> counter, stop |-> stop, total |-> total]

----------------------------------------------------------------------------
(* The process group                                                       *)

Ranks == 0..(size - 1)

\* the rank every worker routine sends to: size - 1
MergeRank == size - 1

\* "if rank == size - 1" in proper; fixed and debug call processing() on every rank
IsMerger(r) == variant = "proper" /\ r = size - 1
WorkerRanks == {r \in Ranks : ~ IsMerger(r)}

\* num_workers = size - 1
NumWorkers == size - 1

NoLocals ==
    [data |-> <<>>, filename_arr |-> <<>>, count_arr |-> <<>>,
     chrp_data |-> [i \in {} |-> <<>>]]

NoMerge ==
    [worker_rank |-> 0, filename_arr |-> <<>>, count_arr |-> <<>>,
     all_filename_arr |-> <<>>, all_count_arr |-> <<>>, all_chrp_data |-> <<>>]

SendPcs == {"send12", "send7", "send13"}
BlockedPcs == {"blk12", "blk7", "blk13"}
RecvPcs == {"recv12", "recv7", "recv13"}

TagOf(p) ==
    IF p \in {"send12", "blk12", "recv12"} THEN TagNames
    ELSE IF p \in {"send7", "blk7", "recv7"} THEN TagCounts
    ELSE TagData

\* where the worker is while a posted send waits for its receive
BlockedAt(p) ==
    IF p = "send12" THEN "blk12" ELSE IF p = "send7" THEN "blk7" ELSE "blk13"

\* AfterSend with the last two sends exchanged: identifiers, mapping, counts
AfterSendSwapped(p) ==
    IF p \in {"send12", "blk12"} THEN "send13"
    ELSE IF p \in {"send13", "blk13"} THEN "send7"
    ELSE "done"

\* the statement after a completed send
AfterSend(p) ==
    IF p \in {"send12", "blk12"} THEN "send7"
    ELSE IF p \in {"send7", "blk7"} THEN "send13"
    ELSE "done"

\* the object each comm.send passes
Payload(p, w) ==
    IF p = "send12" THEN w.filename_arr
    ELSE IF p = "send7" THEN w.count_arr
    ELSE w.chrp_data

\* __main__: find_columns_file() (proper, fixed) and the choice of role
Main(r) ==
    /\ pc[r] = "main"
    /\ pc' = [pc EXCEPT ![r] =
                IF variant # "debug" /\ columfile = NotFound THEN "exit_nocolumns"
                ELSE IF IsMerger(r) THEN "merger"
                ELSE "worker"]
    /\ UNCHANGED <<variant, size, buffered, inputfile, columfile, argv, wk, net, agg,
                   slog, rlog>>

\* the worker routine up to the sends: both reads, the filter and the loops
Work(r) ==
    /\ pc[r] = "worker"
    /\ IF inputfile = NotFound
       THEN /\ pc' = [pc EXCEPT ![r] = "fail_input"]
            /\ wk' = wk
       ELSE IF columfile = NotFound \/ columfile.lines = <<>>
       THEN /\ pc' = [pc EXCEPT ![r] = "fail_columns"]
            /\ wk' = wk
       ELSE /\ pc' = [pc EXCEPT ![r] = "send12"]
            /\ wk' = [wk EXCEPT ![r] =
                        WorkerLocals(variant, inputfile.lines, ColumnData(columfile.lines),
                                     argv[r].c, argv[r].counter, argv[r].stop,
                                     argv[r].total)]
    /\ UNCHANGED <<variant, size, buffered, inputfile, columfile, argv, net, agg,
                   slog, rlog>>

\* comm.send(obj, dest=size - 1, tag=...)
Send(r) ==
    /\ pc[r] \in SendPcs
    /\ net' = [net EXCEPT ![r] =
                 Append(@, [dst |-> MergeRank, tag |-> TagOf(pc[r]),
                            payload |-> Payload(pc[r], wk[r])])]
    /\ slog' = [slog EXCEPT ![r] = Append(@, TagOf(pc[r]))]
    /\ pc' = [pc EXCEPT ![r] = IF buffered THEN AfterSend(pc[r]) ELSE BlockedAt(pc[r])]
    /\ UNCHANGED <<variant, size, buffered, inputfile, columfile, argv, wk, agg, rlog>>

\* a send raises: "MPI send failed", return False
SendFail(r) ==
    /\ pc[r] \in SendPcs
    /\ pc' = [pc EXCEPT ![r] = "fail_send"]
    /\ UNCHANGED <<variant, size, buffered, inputfile, columfile, argv, wk, net, agg,
                   slog, rlog>>

\* for worker_rank in range(num_workers): ... ; after the loop, return True
MergerLoop(r) ==
    /\ pc[r] = "merger"
    /\ pc' = [pc EXCEPT ![r] = IF agg.worker_rank < NumWorkers THEN "recv12" ELSE "done"]
    /\ UNCHANGED <<variant, size, buffered, inputfile, columfile, argv, wk, net, agg,
                   slog, rlog>>

\* index in q of the first message for dst carrying tag, 0 if there is none
FirstMatch(q, dst, tag) ==
    LET hits == {k \in 1..Len(q) : q[k].dst = dst /\ q[k].tag = tag}
    IN  IF hits = {} THEN 0 ELSE CHOOSE k \in hits : \A j \in hits : k <= j

RemoveAt(q, k) == SubSeq(q, 1, k - 1) \o SubSeq(q, k + 1, Len(q))

\* Received with each worker's contribution put in front of the earlier ones
ReceivedInFront(a, p, payload) ==
    IF p = "recv12" THEN [a EXCEPT !.filename_arr = payload]
    ELSE IF p = "recv7" THEN [a EXCEPT !.count_arr = payload]
    ELSE [a EXCEPT !.all_filename_arr = a.filename_arr \o @,
                   !.all_count_arr = a.count_arr \o @,
                   !.all_chrp_data = <<payload>> \o @,
                   !.worker_rank = @ + 1]

\* Received with each payload merged as soon as it arrives
ReceivedEager(a, p, payload) ==
    IF p = "recv12" THEN [a EXCEPT !.filename_arr = payload,
                                   !.all_filename_arr = @ \o payload]
    ELSE IF p = "recv7" THEN [a EXCEPT !.count_arr = payload,
                                      !.all_count_arr = @ \o payload]
    ELSE [a EXCEPT !.all_chrp_data = Append(@, payload),
                   !.worker_rank = @ + 1]

\* what one completed comm.recv does to the merger's locals
Received(a, p, payload) ==
    IF p = "recv12" THEN [a EXCEPT !.filename_arr = payload]
    ELSE IF p = "recv7" THEN [a EXCEPT !.count_arr = payload]
    ELSE [a EXCEPT !.all_filename_arr = @ \o a.filename_arr,
                   !.all_count_arr = @ \o a.count_arr,
                   !.all_chrp_data = Append(@, payload),
                   !.worker_rank = @ + 1]

\* AfterRecv without the receive of the counts
AfterRecvSkip(p) == IF p = "recv12" THEN "recv13" ELSE "merger"

\* the statement after a completed receive
AfterRecv(p) ==
    IF p = "recv12" THEN "recv7" ELSE IF p = "recv7" THEN "recv13" ELSE "merger"

\* comm.recv(source=worker_rank, tag=...) completes; a sender waiting on it resumes
Recv(r) ==
    /\ pc[r] \in RecvPcs
    /\ LET w == agg.worker_rank
           k == FirstMatch(net[w], r, TagOf(pc[r]))
       IN  /\ k # 0
           /\ net' = [net EXCEPT ![w] = RemoveAt(@, k)]
           /\ agg' = Received(agg, pc[r], net[w][k].payload)
           /\ rlog' = Append(rlog, <<w, TagOf(pc[r])>>)
           /\ pc' = [q \in Ranks |->
                       IF q = r THEN AfterRecv(pc[r])
                       ELSE IF q = w /\ pc[w] \in BlockedPcs /\ TagOf(pc[w]) = TagOf(pc[r])
                            THEN AfterSend(pc[w])
                       ELSE pc[q]]
    /\ UNCHANGED <<variant, size, buffered, inputfile, columfile, argv, wk, slog>>

\* a receive raises: "Failed to receive from worker", return False
RecvFail(r) ==
    /\ pc[r] \in RecvPcs
    /\ pc' = [pc EXCEPT ![r] = "fail_recv"]
    /\ UNCHANGED <<variant, size, buffered, inputfile, columfile, argv, wk, net, agg,
                   slog, rlog>>

MainStep == \E r \in Ranks : Main(r)
WorkStep == \E r \in Ranks : Work(r)
SendStep == \E r \in Ranks : Send(r)
SendFailStep == \E r \in Ranks : SendFail(r)
MergerLoopStep == \E r \in Ranks : MergerLoop(r)
RecvStep == \E r \in Ranks : Recv(r)
RecvFailStep == \E r \in Ranks : RecvFail(r)

Next ==
    \/ MainStep
    \/ WorkStep
    \/ SendStep
    \/ SendFailStep
    \/ MergerLoopStep
    \/ RecvStep
    \/ RecvFailStep

----------------------------------------------------------------------------
(* Initial states                                                          *)

\* the ranks that run a worker routine in a group of S ranks of variant v
WorkersOf(v, S) == IF v = "proper" THEN 0..(S - 2) ELSE 0..(S - 1)

\* [1, total] cut into one contiguous range per worker, in rank order
SplitArgs(v, S, total) ==
    LET W == Cardinality(WorkersOf(v, S))
        Cuts == {f \in [0..W -> 0..total] :
                    /\ f[0] = 0
                    /\ f[W] = total
                    /\ \A k \in 0..(W - 1) : f[k] <= f[k + 1]}
    IN  IF W = 0 THEN {}
        ELSE {[r \in 0..(S - 1) |->
                 IF r < W THEN Args(f[r] + 1, f[r + 1], total) ELSE Args(1, total, total)]
              : f \in Cuts}

\* the cut that gives every worker but the last one line
LineEach(v, S, total) ==
    {a \in SplitArgs(v, S, total) :
        \A r \in WorkersOf(v, S) :
            r + 1 < Cardinality(WorkersOf(v, S)) => a[r].stop = Min(r + 1, total)}

\* one command line for the whole group
SameArgs(S, total) == {[r \in 0..(S - 1) |-> Args(1, total, total)]}

InitProcs ==
    /\ pc = [r \in Ranks |-> "main"]
    /\ wk = [r \in Ranks |-> NoLocals]
    /\ net = [r \in Ranks |-> <<>>]
    /\ slog = [r \in Ranks |-> <<>>]
    /\ agg = NoMerge
    /\ rlog = <<>>

\* the group: every variant, group size and transport mode, over one three-line
\* file cut among the workers, with the input and the columns file present or not
GroupFile == <<DataAt(1), DataAt(2), LComment>>

Init ==
    /\ variant \in Variants
    /\ size \in 1..MaxSize
    /\ buffered \in BOOLEAN
    /\ inputfile \in {NotFound, File(GroupFile)}
    /\ columfile \in {NotFound, File(<<>>), File(<<HeaderLine(2)>>)}
    /\ argv \in LineEach(variant, size, Len(GroupFile))
                  \cup SameArgs(size, Len(GroupFile))
    /\ InitProcs

Spec == Init /\ [][Next]_vars

\* one worker routine over every range of every short file, and over every
\* catalogue line alone
InitW ==
    /\ variant \in Variants
    /\ size = IF variant = "proper" THEN 2 ELSE 1
    /\ buffered = TRUE
    /\ \/ /\ inputfile \in {File(f) : f \in RangeFiles}
          /\ columfile = File(<<HeaderLine(2)>>)
          /\ \E counter \in (0 - 1)..MaxPos, stop \in (0 - 1)..MaxPos, total \in 1..MaxPos :
                argv = [r \in Ranks |-> Args(counter, stop, total)]
       \/ /\ inputfile \in {File(f) : f \in LineFiles}
          /\ columfile \in {File(f) : f \in ColumnFiles}
          /\ argv = [r \in Ranks |-> Args(1, 2, 2)]
    /\ InitProcs

SpecW == InitW /\ [][Next]_vars

\* the proper script over every short file and every cut of [1, total]
InitSplit ==
    /\ variant = "proper"
    /\ size \in 2..MaxSize
    /\ buffered = FALSE
    /\ inputfile \in {File(f) : f \in RangeFiles}
    /\ columfile = File(<<HeaderLine(2)>>)
    /\ \E total \in 1..MaxPos :
          argv \in SplitArgs(variant, size, total) \cup SameArgs(size, total)
    /\ InitProcs

\* the steps of a run in which the transport raises nothing
NextReliable ==
    \/ MainStep
    \/ WorkStep
    \/ SendStep
    \/ MergerLoopStep
    \/ RecvStep

SpecSplit == InitSplit /\ [][NextReliable]_vars

\* every rank is its own operating-system process: each keeps taking its steps;
\* nothing obliges the transport to raise
Proc(r) ==
    /\ r \in Ranks
    /\ (Main(r) \/ Send(r) \/ MergerLoop(r) \/ Recv(r))

\* the worker routine is a finite computation over finite files: a rank does not
\* stay at its start for ever.  Work(r) is enabled exactly when pc[r] = "worker"
\* and every Work(r) step leaves "worker", so this is WF_vars(Work(r)).
WorkReturns(r) == []<>(r \in Ranks => pc[r] # "worker")

FairSpec ==
    /\ Init /\ [][Next]_vars
    /\ \A r \in 0..(MaxSize - 1) : WF_vars(Proc(r)) /\ WorkReturns(r)

----------------------------------------------------------------------------
(* Properties                                                              *)

\* rank r has run the worker routine's loops: its locals are final
Computed(r) ==
    r \in WorkerRanks /\ pc[r] \in SendPcs \cup BlockedPcs \cup {"done", "fail_send"}

\* the part of genotype g before the first '|' (all of g when it has none)
BeforeBar(g) ==
    LET bars == {k \in 1..Len(g) : g[k] = "|"}
    IN  IF bars = {} THEN g
        ELSE SubSeq(g, 1, (CHOOSE k \in bars : \A j \in bars : k <= j) - 1)

\* the worker parsed a genotype and a frequency for stripped line ln and column col
ParsedFor(ln, col) ==
    LET fields == Split(ln, "\t")
    IN  /\ Len(fields) > col
        /\ AfText(variant, fields[8]) # <<>>
        /\ AfValue(AfText(variant, fields[8])[1]).k # "err"

FreqOf(ln) == AfValue(AfText(variant, Split(ln, "\t")[8])[1])
GenotypeOf(ln, col) == Split(ln, "\t")[col + 1]

\* a record of list recs came from line ln (POS tells the lines of a file apart)
HasRecordOf(recs, ln) == \E j \in 1..Len(recs) : recs[j][1] = Split(ln, "\t")[2]

\* C1: for every line the worker parsed a genotype g and a frequency f for, the
\* line's record is in the individual's list exactly when f >= 0.5 and the part of
\* g before the first '|' is "0", or f < 0.5 and that part is "1".
C1_KeepRule ==
    \A r \in Ranks :
        Computed(r) =>
            \A i \in DOMAIN wk[r].chrp_data :
                \A k \in 1..Len(wk[r].data) :
                    LET ln == wk[r].data[k]
                        col == i + start_data
                    IN  ParsedFor(ln, col) =>
                            LET f == FreqOf(ln)
                                a == BeforeBar(GenotypeOf(ln, col))
                            IN  HasRecordOf(wk[r].chrp_data[i], ln)
                                    <=> \/ GeHalf(f) /\ a = <<"0">>
                                        \/ LtHalf(f) /\ a = <<"1">>

\* a worker kept the record of a line with frequency exactly 0.5 for one individual
\* and dropped it for the other
C1_Witness ==
    \E r \in Ranks :
        /\ Computed(r)
        /\ Len(wk[r].data) = 1
        /\ ParsedFor(wk[r].data[1], start_data)
        /\ FreqOf(wk[r].data[1]) = Float(<<"0", ".", "5">>)
        /\ \E i, j \in DOMAIN wk[r].chrp_data :
              /\ Len(wk[r].chrp_data[i]) = 1
              /\ wk[r].chrp_data[j] = <<>>

\* the command lines cut [1, total] into one contiguous range per worker, in rank order
IsSplit ==
    /\ NumWorkers >= 1
    /\ argv[0].counter = 1
    /\ argv[NumWorkers - 1].stop = argv[0].total
    /\ \A w \in 0..(NumWorkers - 1) :
          /\ argv[w].total = argv[0].total
          /\ argv[w].stop >= argv[w].counter - 1
          /\ w + 1 < NumWorkers => argv[w + 1].counter = argv[w].stop + 1

\* what one worker given the whole range [1, total] computes
SingleRun ==
    WorkerLocals(variant, inputfile.lines, ColumnData(columfile.lines), argv[0].c,
                 1, argv[0].total, argv[0].total)

\* the merger's records of individual i from its first n entries, in rank order
RECURSIVE MergedRecords(_, _)
MergedRecords(i, n) ==
    IF n = 0 THEN <<>> ELSE MergedRecords(i, n - 1) \o agg.all_chrp_data[n][i]

\* the merger's counts of individual i from the first n workers, added up
RECURSIVE MergedCount(_, _)
MergedCount(i, n) ==
    IF n = 0 THEN 0
    ELSE MergedCount(i, n - 1)
         + agg.all_count_arr[(n - 1) * Len(SingleRun.count_arr) + i + 1]

\* C2: when the workers' ranges cut [1, total] into contiguous pieces in rank order,
\* the records the merger holds for an individual, worker after worker, are the
\* records one worker over [1, total] produces for it, and the counts add up to
\* that worker's count.
C2_SplitEqualsSingle ==
    (variant = "proper" /\ pc[MergeRank] = "done" /\ IsSplit) =>
        \A i \in DOMAIN SingleRun.chrp_data :
            /\ MergedRecords(i, NumWorkers) = SingleRun.chrp_data[i]
            /\ MergedCount(i, NumWorkers) = SingleRun.count_arr[i + 1]

\* the merge of a cut in which two workers each contributed records of one individual
C2_Witness ==
    /\ variant = "proper"
    /\ pc[MergeRank] = "done"
    /\ IsSplit
    /\ NumWorkers >= 2
    /\ \E i \in DOMAIN SingleRun.chrp_data :
          /\ agg.all_chrp_data[1][i] # <<>>
          /\ agg.all_chrp_data[2][i] # <<>>

WorkerOnlyPcs ==
    {"worker", "fail_input", "fail_columns", "fail_send"} \cup SendPcs \cup BlockedPcs
MergerOnlyPcs == {"merger", "fail_recv"} \cup RecvPcs

\* C3: the rank size - 1 only merges (it never runs the worker routine and never
\* sends), every lower rank only works (it never receives), and no rank sends a
\* contribution to itself.
C3_Roles ==
    \A r \in Ranks :
        /\ r = size - 1 => (pc[r] \notin WorkerOnlyPcs /\ slog[r] = <<>>)
        /\ r < size - 1 => pc[r] \notin MergerOnlyPcs
        /\ \A k \in 1..Len(net[r]) : net[r][k].dst # r

\* the order of the three sends
SendOrder == <<TagNames, TagCounts, TagData>>

IsPrefix(a, b) == Len(a) <= Len(b) /\ a = SubSeq(b, 1, Len(a))

\* the workers' filename_arr, and count_arr, of ranks 0..n-1 one after the other
RECURSIVE NamesUpTo(_)
NamesUpTo(n) == IF n = 0 THEN <<>> ELSE NamesUpTo(n - 1) \o wk[n - 1].filename_arr
RECURSIVE CountsUpTo(_)
CountsUpTo(n) == IF n = 0 THEN <<>> ELSE CountsUpTo(n - 1) \o wk[n - 1].count_arr

\* C4: when the merge succeeds, each (worker, tag) was received exactly once, the
\* merged identifiers and counts are the workers' lists in increasing rank order,
\* and entry r of the merged record collection is worker r's mapping, whatever the
\* order the workers sent in.
C4_MergeInRankOrder ==
    (variant = "proper" /\ pc[MergeRank] = "done") =>
        /\ Len(rlog) = Len(SendOrder) * NumWorkers
        /\ \A w \in 0..(NumWorkers - 1) : \A t \in 1..Len(SendOrder) :
              Cardinality({k \in 1..Len(rlog) : rlog[k] = <<w, SendOrder[t]>>}) = 1
        /\ agg.all_filename_arr = NamesUpTo(NumWorkers)
        /\ agg.all_count_arr = CountsUpTo(NumWorkers)
        /\ Len(agg.all_chrp_data) = NumWorkers
        /\ \A w \in 0..(NumWorkers - 1) : agg.all_chrp_data[w + 1] = wk[w].chrp_data

\* a finished merge of two workers whose counts differ
C4_Witness ==
    /\ variant = "proper"
    /\ pc[MergeRank] = "done"
    /\ NumWorkers >= 2
    /\ wk[0].count_arr # wk[1].count_arr
    /\ wk[0].chrp_data # wk[1].chrp_data

\* C5: every worker sends identifiers, counts, mapping in that order; the merger
\* receives worker 0's three payloads, then worker 1's, and so on, each triple in
\* the same order; and what it received for (source, tag) is what that source sent
\* with that tag.
C5_OrderedTriples ==
    variant = "proper" =>
        /\ \A r \in WorkerRanks : IsPrefix(slog[r], SendOrder)
        /\ \A k \in 1..Len(rlog) :
              rlog[k] = <<(k - 1) \div Len(SendOrder),
                          SendOrder[((k - 1) % Len(SendOrder)) + 1]>>
        /\ pc[MergeRank] \in {"recv7", "recv13"} =>
              agg.filename_arr = wk[agg.worker_rank].filename_arr
        /\ pc[MergeRank] = "recv13" => agg.count_arr = wk[agg.worker_rank].count_arr
        /\ \A n \in 1..Len(agg.all_chrp_data) :
              agg.all_chrp_data[n] = wk[n - 1].chrp_data

\* the merger is inside worker 0's triple while worker 1 has already sent all three
C5_Witness ==
    /\ variant = "proper"
    /\ NumWorkers >= 2
    /\ pc[MergeRank] = "recv7"
    /\ agg.worker_rank = 0
    /\ slog[1] = SendOrder
    /\ Len(net[1]) = Len(SendOrder)

FailedPcs == {"fail_input", "fail_columns", "fail_send"}

\* C6: a worker that has reported failure (input or columns file not read, or a
\* send that raised) has sent none of its three payloads.
C6_NoPartialSend ==
    variant = "proper" =>
        \A r \in WorkerRanks : pc[r] \in FailedPcs => slog[r] = <<>>

\* C7 as claimed: once an expected worker has ended without sending, the merger
\* eventually ends in a failure outcome.
C7_EventuallyFails ==
    (variant = "proper" /\ \E w \in WorkerRanks : pc[w] \in FailedPcs /\ slog[w] = <<>>)
        ~> (pc[MergeRank] \in {"fail_recv", "exit_nocolumns"})

\* C7, the part that holds: while a worker has ended in failure the merger has not
\* reported success and its merged lists hold nothing of that worker or of a later
\* one; it is in, or still before, the receives for that worker, or has failed itself.
C7_NeverSucceeds ==
    variant = "proper" =>
        \A w \in WorkerRanks :
            pc[w] \in FailedPcs \cup {"exit_nocolumns"} =>
                /\ pc[MergeRank] # "done"
                /\ agg.worker_rank <= w
                /\ Len(agg.all_chrp_data) <= w

\* worker 0 could not read its input and the merger waits in its first receive
C7_Witness ==
    /\ variant = "proper"
    /\ NumWorkers >= 1
    /\ pc[0] = "fail_input"
    /\ pc[MergeRank] = "recv12"
    /\ agg.worker_rank = 0

\* both files can be read
Readable == inputfile.exists /\ columfile.exists /\ columfile.lines # <<>>

\* the transport raised in a send or in a receive
TransportFault == \E r \in Ranks : pc[r] \in {"fail_send", "fail_recv"}

AllSucceeded ==
    /\ \A r \in Ranks : pc[r] = "done"
    /\ \A w \in WorkerRanks : slog[w] = SendOrder /\ net[w] = <<>>
    /\ Len(rlog) = Len(SendOrder) * NumWorkers

Terminated(r) == pc[r] \in {"done", "fail_recv", "exit_nocolumns"} \cup FailedPcs

\* rank r waits in a send nobody receives yet, or in a receive nothing was sent for
Waiting(r) ==
    \/ pc[r] \in BlockedPcs
    \/ pc[r] \in RecvPcs /\ FirstMatch(net[agg.worker_rank], r, TagOf(pc[r])) = 0

NoDeadlock ==
    (variant = "proper" /\ Readable /\ ~ TransportFault) =>
        ~ (/\ \E r \in Ranks : ~ Terminated(r)
           /\ \A r \in Ranks : ~ Terminated(r) => Waiting(r))

\* C8: in the proper script, for every group size, when both files can be read and
\* the transport raises nothing, no state has every live rank waiting in a send or
\* a receive, and every worker ends with its three sends done and success, the
\* merger with all its receives done and success.
C8_DeadlockFree ==
    /\ [] NoDeadlock
    /\ (variant = "proper" /\ Readable) ~> (AllSucceeded \/ TransportFault)

\* a whole group has succeeded over a transport whose sends wait for their receives
C8_Witness ==
    /\ variant = "proper"
    /\ NumWorkers >= 2
    /\ ~ buffered
    /\ AllSucceeded

\* the raw lines at the 1-based positions counter..min(stop, total) that exist
LinesInRange(rawdata, counter, stop, total) ==
    LET lo == Max(counter, 1)
        hi == Min(Min(stop, total), Len(rawdata))
    IN  IF lo <= hi THEN SubSeq(rawdata, lo, hi) ELSE <<>>

\* C9: for every (start, stop, total) and every file of L lines, the lines a worker
\* processes are the non-comment lines among those whose 1-based position lies in
\* [start, min(stop, total)] and in [1, L], and the worker comes to its sends with a
\* contribution of one identifier and one count per individual.
C9_ExactRange ==
    \A r \in Ranks :
        Computed(r) =>
            /\ wk[r].data =
                  StripLines(FilterLines(LinesInRange(inputfile.lines, argv[r].counter,
                                                      argv[r].stop, argv[r].total)))
            /\ Len(wk[r].filename_arr) = Len(wk[r].count_arr)
            /\ DOMAIN wk[r].chrp_data = 0..(Len(wk[r].count_arr) - 1)

\* C10 as claimed: with a 1-based range, the lines a worker processes are lines
\* start..min(stop, total) of the file's non-comment lines.
C10_RangeOverDataLines ==
    \A r \in Ranks :
        (Computed(r) /\ argv[r].counter >= 1 /\ argv[r].stop >= 0) =>
            wk[r].data =
                StripLines(LinesInRange(FilterLines(inputfile.lines), argv[r].counter,
                                        argv[r].stop, argv[r].total))

\* the lines of s other than x
Without(s, x) == LET Other(y) == y # x IN SelectSeq(s, Other)

\* C10, amended: the range is cut out of the raw lines, comment lines counted, and
\* comment lines are discarded from the cut afterwards: had any one line of the
\* file been a comment line, the worker would process the same lines less that one.
C10_RangeOverRawLines ==
    \A r \in Ranks :
        Computed(r) =>
            \A p \in 1..Len(inputfile.lines) :
                FilterData(variant, [inputfile.lines EXCEPT ![p] = LComment],
                           argv[r].counter, argv[r].stop, argv[r].total)
                    = Without(wk[r].data, RStripNL(inputfile.lines[p]))

\* a worker given the range [2, 2] processed the first data line of its file, which
\* is raw line 2 behind a comment line
C10_Witness ==
    \E r \in Ranks :
        /\ Computed(r)
        /\ Len(inputfile.lines) = 2
        /\ ~ RegexMatch(inputfile.lines[1])
        /\ RegexMatch(inputfile.lines[2])
        /\ argv[r].counter = 2
        /\ Min(argv[r].stop, argv[r].total) = 2
        /\ wk[r].data = <<RStripNL(inputfile.lines[2])>>

\* line ln is too short for column col: fewer than 9 fields, or fewer than col + 1
Malformed(ln, col) ==
    LET n == Len(Split(ln, "\t")) IN n < start_data \/ n < col + 1

\* the lines of data that are long enough for column col
WellFormed(data, col) == LET Long(ln) == ~ Malformed(ln, col) IN SelectSeq(data, Long)

\* C11: a line with fewer than 9 fields, or with fewer fields than the individual's
\* column index plus one, gives that individual no record; the individual's records
\* and count are those of the remaining lines alone; and the worker comes to its
\* sends all the same.
C11_SkipsShortLines ==
    \A r \in Ranks :
        Computed(r) =>
            \A i \in DOMAIN wk[r].chrp_data :
                LET col == i + start_data
                IN  /\ \A k \in 1..Len(wk[r].data) :
                          Malformed(wk[r].data[k], col) =>
                              ~ HasRecordOf(wk[r].chrp_data[i], wk[r].data[k])
                    /\ wk[r].chrp_data[i]
                          = IndividualRecords(variant, WellFormed(wk[r].data, col), col)
                    /\ wk[r].count_arr[i + 1]
                          = Len(IndividualRecords(variant, WellFormed(wk[r].data, col), col))

\* a ten-field row in front of a whole row: the first individual has a record of
\* each, the second only of the whole row
C11_Witness ==
    \E r \in Ranks :
        /\ Computed(r)
        /\ Len(wk[r].data) = 2
        /\ DOMAIN wk[r].chrp_data = 0..1
        /\ ~ Malformed(wk[r].data[1], start_data)
        /\ Malformed(wk[r].data[1], start_data + 1)
        /\ wk[r].count_arr = <<2, 1>>
        /\ HasRecordOf(wk[r].chrp_data[0], wk[r].data[1])
        /\ HasRecordOf(wk[r].chrp_data[1], wk[r].data[2])

\* the ';'-separated components of annotation info that begin with AF=
AFParts(info) == LET IsAF(part) == StartsWith(part, AFPrefix) IN SelectSeq(Split(info, ";"), IsAF)

\* the text of s before its first ch (all of s when it has none)
Before(s, ch) ==
    LET at == {k \in 1..Len(s) : s[k] = ch}
    IN  IF at = {} THEN s
        ELSE SubSeq(s, 1, (CHOOSE k \in at : \A j \in at : k <= j) - 1)

\* what follows AF= in the first AF= component, up to the first comma, as a float
StatedFreq(info) ==
    LET part == AFParts(info)[1]
    IN  Float(Before(SubSeq(part, Len(AFPrefix) + 1, Len(part)), ","))

\* the records of list recs that came from line ln
RecordsOf(recs, ln) ==
    LET From(rec) == rec[1] = Split(ln, "\t")[2] IN SelectSeq(recs, From)

\* C12: for every line whose annotation has an AF= component, whatever other
\* components stand before or after it, the frequency the line is classified by
\* and recorded with is the value that follows AF= up to the first comma; a value
\* that is no number leaves the line out.
C12_FirstAFValue ==
    \A r \in Ranks :
        Computed(r) =>
            \A i \in DOMAIN wk[r].chrp_data : \A k \in 1..Len(wk[r].data) :
                LET ln   == wk[r].data[k]
                    col  == i + start_data
                    info == Split(ln, "\t")[8]
                    recs == RecordsOf(wk[r].chrp_data[i], ln)
                IN  (~ Malformed(ln, col) /\ AFParts(info) # <<>>) =>
                        LET f == StatedFreq(info)
                            a == BeforeBar(GenotypeOf(ln, col))
                        IN  /\ recs # <<>> <=> \/ GeHalf(f) /\ a = <<"0">>
                                               \/ LtHalf(f) /\ a = <<"1">>
                            /\ \A j \in 1..Len(recs) : recs[j][5] = Str(f)

\* a row annotated EAS_AF=0.9;AF=0.2,0.8;DP=3 was kept for the individual whose
\* genotype begins with 1, with 0.2 recorded
C12_Witness ==
    \E r \in Ranks :
        /\ Computed(r)
        /\ wk[r].data = <<RStripNL(LM)>>
        /\ DOMAIN wk[r].chrp_data = 0..1
        /\ Len(wk[r].chrp_data[0]) = 1
        /\ wk[r].chrp_data[0][1][5] = <<"0", ".", "2">>
        /\ wk[r].chrp_data[1] = <<>>

\* the value the fallback is said to take from annotation info: <<f>>, or <<>> when
\* info has fewer than 9 components
StatedFallback(info) ==
    LET parts == Split(info, ";")
    IN  IF Len(parts) <= FallbackIdx THEN <<>>
        ELSE LET part == parts[FallbackIdx + 1]
                 text == IF Contains(part, "=") THEN Split(part, "=")[2] ELSE part
             IN  <<Float(Before(text, ","))>>

\* C13: for a line whose annotation has no AF= component, the frequency is taken
\* from the component at index 8, the value of a key=value or the bare text itself;
\* the line is left out only when there are fewer than 9 components or the value is
\* no number.
C13_FallbackTakesBareValue ==
    \A r \in Ranks :
        Computed(r) =>
            \A i \in DOMAIN wk[r].chrp_data : \A k \in 1..Len(wk[r].data) :
                LET ln   == wk[r].data[k]
                    col  == i + start_data
                    info == Split(ln, "\t")[8]
                    recs == RecordsOf(wk[r].chrp_data[i], ln)
                    a    == BeforeBar(GenotypeOf(ln, col))
                    f    == StatedFallback(info)
                IN  (~ Malformed(ln, col) /\ AFParts(info) = <<>>) =>
                        /\ recs # <<>> <=>
                              /\ f # <<>>
                              /\ \/ GeHalf(f[1]) /\ a = <<"0">>
                                 \/ LtHalf(f[1]) /\ a = <<"1">>
                        /\ \A j \in 1..Len(recs) : recs[j][5] = Str(f[1])

\* the header read has fewer than 9 columns
HeaderTooShort ==
    /\ columfile.exists
    /\ columfile.lines # <<>>
    /\ Len(ColumnData(columfile.lines)) < start_data

\* C14: a worker whose header line has fewer than 9 columns sends nothing and does
\* not end in success.
C14_MalformedHeader ==
    HeaderTooShort =>
        \A r \in WorkerRanks : slog[r] = <<>> /\ pc[r] # "done"

\* the header columns 9 and up
Individuals == LET cd == ColumnData(columfile.lines) IN SubSeq(cd, start_data + 1, Len(cd))

\* C15: in what a worker sends, for a header with N columns 9 and up, the
\* identifier list and the count list have N entries, the mapping's keys are
\* 0..N-1, identifier i is chr<chromosome>.<name of column i+9>, count i is the
\* number of records in the mapping's list for i; and each payload in the transport
\* is that list, or that mapping, by its tag.
C15_ParallelIndexed ==
    \A r \in Ranks :
        Computed(r) =>
            LET N == Len(Individuals)
            IN  /\ Len(wk[r].filename_arr) = N
                /\ Len(wk[r].count_arr) = N
                /\ DOMAIN wk[r].chrp_data = 0..(N - 1)
                /\ \A i \in 0..(N - 1) :
                      /\ wk[r].filename_arr[i + 1]
                            = <<"c", "h", "r">> \o argv[r].c \o <<".">> \o Individuals[i + 1]
                      /\ wk[r].count_arr[i + 1] = Len(wk[r].chrp_data[i])
                /\ \A k \in 1..Len(net[r]) :
                      net[r][k].payload =
                          IF net[r][k].tag = TagNames THEN wk[r].filename_arr
                          ELSE IF net[r][k].tag = TagCounts THEN wk[r].count_arr
                          ELSE wk[r].chrp_data

\* a worker has sent all three payloads for two individuals whose counts differ
C15_Witness ==
    \E r \in Ranks :
        /\ Computed(r)
        /\ Len(net[r]) = 3
        /\ Len(Individuals) = 2
        /\ wk[r].count_arr[1] # wk[r].count_arr[2]
        /\ wk[r].count_arr[2] > 0

\* all three payloads of worker w have been received
TripleReceived(w) == \A t \in 1..Len(SendOrder) : \E k \in 1..Len(rlog) : rlog[k] = <<w, SendOrder[t]>>

\* C16: in every state the merged identifiers, counts and record collection are
\* those of the workers 0..n-1 whose three payloads were all received, n being the
\* worker the merger is at; when a receive fails inside worker r's triple the merger
\* has ended in failure with nothing of worker r in the merged lists.
C16_NoPartialContribution ==
    variant = "proper" =>
        LET n == Len(agg.all_chrp_data)
        IN  /\ n = agg.worker_rank
            /\ \A w \in 0..(n - 1) : TripleReceived(w)
            /\ agg.all_filename_arr = NamesUpTo(n)
            /\ agg.all_count_arr = CountsUpTo(n)
            /\ \A w \in 0..(n - 1) : agg.all_chrp_data[w + 1] = wk[w].chrp_data
            /\ pc[MergeRank] = "fail_recv" => (n < NumWorkers /\ ~ TripleReceived(n))

\* worker 0 is merged, and the merger failed after the first payload of worker 1
C16_Witness ==
    /\ variant = "proper"
    /\ NumWorkers >= 2
    /\ pc[MergeRank] = "fail_recv"
    /\ agg.worker_rank = 1
    /\ rlog[Len(rlog)] = <<1, TagNames>>
    /\ agg.filename_arr = wk[1].filename_arr
    /\ agg.all_filename_arr = wk[0].filename_arr

\* no element occurs twice in sequence q
NoRepeat(q) == \A j, k \in 1..Len(q) : q[j] = q[k] => j = k

\* C17: every rank that sends executes each of its three sends at most once, each
\* (worker, tag) is received at most once, and when every process has returned
\* success nothing sent is left unreceived in the transport.
C17_ExactlyOnce ==
    /\ \A r \in Ranks : NoRepeat(slog[r])
    /\ NoRepeat(rlog)
    /\ (\A r \in Ranks : pc[r] = "done") => \A r \in Ranks : net[r] = <<>>

\* the identifiers, counts and mapping variant v sends for rank r's command line
Sent(v, r) ==
    LET w == WorkerLocals(v, inputfile.lines, ColumnData(columfile.lines), argv[r].c,
                          argv[r].counter, argv[r].stop, argv[r].total)
    IN  <<w.filename_arr, w.count_arr, w.chrp_data>>

\* C18: for every input file, header and (start, stop, total) the worker routines
\* of the three scripts send the same identifiers, counts and mapping.
C18_VariantsAgree ==
    \A r \in Ranks :
        Computed(r) =>
            \A v \in Variants :
                Sent(v, r) = <<wk[r].filename_arr, wk[r].count_arr, wk[r].chrp_data>>

====
